---------------------------- MODULE Spec2Model ----------------------------
(***************************************************************************)
(* Kronecker-structured Gaussian-process regression                        *)
(* (GPy/models/gp_kronecker_gaussian_regression.py).                       *)
(*                                                                         *)
(* Arrays are modelled as numpy sees them: a shape and one value per       *)
(* 0-based multi-index.  Values are exact rationals <<num, den>>.          *)
(***************************************************************************)
EXTENDS Integers, Sequences, FiniteSets, TLC

(***************************************************************************)
(* Exact rational arithmetic (the code computes in floating point; the     *)
(* model keeps the exact value).                                           *)
(***************************************************************************)
Abs(n) == IF n < 0 THEN -n ELSE n

RECURSIVE GCD(_, _)
GCD(a, b) == IF b = 0 THEN a ELSE GCD(b, a % b)

Norm(n, d) ==
    LET g == GCD(Abs(n), Abs(d))
        s == IF d < 0 THEN -1 ELSE 1
    IN  <<(s * n) \div g, (s * d) \div g>>

RI(n) == <<n, 1>>
RZero == RI(0)
ROne == RI(1)
RAdd(p, q) ==
    LET g == GCD(p[2], q[2])
    IN  Norm(p[1] * (q[2] \div g) + q[1] * (p[2] \div g), (p[2] \div g) * q[2])
RNeg(p) == <<-p[1], p[2]>>
RSub(p, q) == RAdd(p, RNeg(q))
RMul(p, q) ==
    LET g == GCD(Abs(p[1]), q[2])
        h == GCD(Abs(q[1]), p[2])
    IN  Norm((p[1] \div g) * (q[1] \div h), (p[2] \div h) * (q[2] \div g))
RInv(p) == Norm(p[2], p[1])
RDiv(p, q) == RMul(p, RInv(q))
RLe(p, q) == p[1] * q[2] <= q[1] * p[2]

(***************************************************************************)
(* Sequences of numbers.                                                   *)
(***************************************************************************)
\* TLC keeps [x \in S |-> e] unevaluated; comparing it evaluates it once
Force(f) == IF f = f THEN f ELSE f

\* a local variable: the value v under the name the body gives it
Let(v, body(_)) == body(v)
Let2(v, w, body(_, _)) == body(v, w)

RECURSIVE Prod(_)
Prod(s) == IF s = <<>> THEN 1 ELSE s[1] * Prod(Tail(s))

RECURSIVE Reverse(_)
Reverse(s) == IF s = <<>> THEN <<>> ELSE Append(Reverse(Tail(s)), s[1])

RECURSIVE RSumSeq(_)
RSumSeq(s) == IF s = <<>> THEN RZero ELSE RAdd(s[1], RSumSeq(Tail(s)))

RECURSIVE SetToSeq(_)
SetToSeq(S) ==
    IF S = {} THEN <<>>
    ELSE LET x == CHOOSE y \in S : TRUE IN <<x>> \o SetToSeq(S \ {x})

\* the entries of s at the positions listed in p (1-based positions)
Pick(s, p) == Force([k \in 1..Len(p) |-> s[p[k]]])

\* the positions 1..n that are not in the set D, ascending
RECURSIVE Others(_, _)
Others(n, D) ==
    IF n = 0 THEN <<>>
    ELSE IF n \in D THEN Others(n - 1, D) ELSE Append(Others(n - 1, D), n)

(***************************************************************************)
(* numpy.ndarray: shape and values by 0-based multi-index.                 *)
(***************************************************************************)
RECURSIVE IdxSet(_)
IdxSet(shape) ==
    IF shape = <<>> THEN {<<>>}
    ELSE {<<i>> \o r : i \in 0..(shape[1] - 1), r \in IdxSet(Tail(shape))}

\* materialise the values so that they are computed once
Arr(shape, f(_)) ==
    [shape |-> shape, v |-> Force([i \in IdxSet(shape) |-> f(i)])]

ndim(x) == Len(x.shape)

RSum(S, f(_)) ==
    LET s == SetToSeq(S)
    IN  RSumSeq(Force([k \in 1..Len(s) |-> f(s[k])]))

\* position of multi-index i in Fortran order (first index fastest)
RECURSIVE ravelF(_, _)
ravelF(i, shape) ==
    IF shape = <<>> THEN 0
    ELSE i[1] + shape[1] * ravelF(Tail(i), Tail(shape))

RECURSIVE unravelF(_, _)
unravelF(k, shape) ==
    IF shape = <<>> THEN <<>>
    ELSE <<k % shape[1]>> \o unravelF(k \div shape[1], Tail(shape))

\* x.T : all axes reversed
T(x) == Arr(Reverse(x.shape), LAMBDA i : x.v[Reverse(i)])

\* x.flatten(order='F')
flattenF(x) == Arr(<<Prod(x.shape)>>, LAMBDA i : x.v[unravelF(i[1], x.shape)])

\* np.reshape(x, shape, order='F') : read in Fortran order, place in Fortran order
reshapeF(x, shape) ==
    Arr(shape, LAMBDA i : x.v[unravelF(ravelF(i, shape), x.shape)])

\* np.tensordot(x, y, axes=[ax, ay]) with 0-based axis lists ax, ay:
\* the free axes of x in order, then the free axes of y in order
tensordot(x, y, ax, ay) ==
    LET fx == Others(ndim(x), {ax[k] + 1 : k \in 1..Len(ax)})
        fy == Others(ndim(y), {ay[k] + 1 : k \in 1..Len(ay)})
        C  == IdxSet([k \in 1..Len(ax) |-> x.shape[ax[k] + 1]])
        ix(i, c) == [p \in 1..ndim(x) |->
                        IF \E k \in 1..Len(ax) : ax[k] + 1 = p
                        THEN c[CHOOSE k \in 1..Len(ax) : ax[k] + 1 = p]
                        ELSE i[CHOOSE k \in 1..Len(fx) : fx[k] = p]]
        iy(i, c) == [p \in 1..ndim(y) |->
                        IF \E k \in 1..Len(ay) : ay[k] + 1 = p
                        THEN c[CHOOSE k \in 1..Len(ay) : ay[k] + 1 = p]
                        ELSE i[Len(fx) + (CHOOSE k \in 1..Len(fy) : fy[k] = p)]]
    IN  Arr(Pick(x.shape, fx) \o Pick(y.shape, fy),
            LAMBDA i : RSum(C, LAMBDA c : RMul(x.v[ix(i, c)], y.v[iy(i, c)])))

\* np.kron(a, b) for a, b of equal rank: b's index varies fastest on every axis
kron(a, b) ==
    Arr([k \in 1..ndim(a) |-> a.shape[k] * b.shape[k]],
        LAMBDA i : RMul(a.v[[k \in 1..ndim(a) |-> i[k] \div b.shape[k]]],
                        b.v[[k \in 1..ndim(a) |-> i[k] % b.shape[k]]]))

\* np.multiply.outer(a, b)
outer(a, b) ==
    Arr(a.shape \o b.shape,
        LAMBDA i : RMul(a.v[SubSeq(i, 1, ndim(a))],
                        b.v[SubSeq(i, ndim(a) + 1, ndim(a) + ndim(b))]))

\* numpy broadcasting of an elementwise binary operation: shapes are aligned
\* at their last axes, an axis of length 1 (or missing) is repeated
Max(a, b) == IF a >= b THEN a ELSE b
PadShape(x, n) == [k \in 1..n |-> IF k <= n - ndim(x) THEN 1 ELSE x.shape[k - (n - ndim(x))]]
BIndex(x, i) ==
    LET n == Len(i)
    IN  [k \in 1..ndim(x) |-> IF x.shape[k] = 1 THEN 0 ELSE i[k + (n - ndim(x))]]
Broadcast(op(_, _), x, y) ==
    LET n == Max(ndim(x), ndim(y))
    IN  Arr([k \in 1..n |-> Max(PadShape(x, n)[k], PadShape(y, n)[k])],
            LAMBDA i : op(x.v[BIndex(x, i)], y.v[BIndex(y, i)]))
Mul(x, y) == Broadcast(RMul, x, y)
Add(x, y) == Broadcast(RAdd, x, y)
Sub(x, y) == Broadcast(RSub, x, y)

Map(op(_), x) == Arr(x.shape, LAMBDA i : op(x.v[i]))
AddScalar(x, s) == Map(LAMBDA e : RAdd(e, s), x)
Scale(s, x) == Map(LAMBDA e : RMul(s, e), x)
Recip(x) == Map(RInv, x)
Square(x) == Map(LAMBDA e : RMul(e, e), x)

\* x.sum()
Sum(x) == RSum(IdxSet(x.shape), LAMBDA i : x.v[i])
\* np.sum(x, 1) of a matrix
SumAxis1(x) == Arr(<<x.shape[1]>>,
                   LAMBDA i : RSum(0..(x.shape[2] - 1), LAMBDA j : x.v[<<i[1], j>>]))
\* np.dot of two matrices, and of two vectors
dot(a, b) == tensordot(a, b, <<1>>, <<0>>)
vdot(a, b) == Sum(Mul(a, b))
\* x[:, None]
Column(x) == Arr(<<x.shape[1], 1>>, LAMBDA i : x.v[<<i[1]>>])

\* literals
Vec(s) == Arr(<<Len(s)>>, LAMBDA i : RI(s[i[1] + 1]))
Mat(rows) == Arr(<<Len(rows), Len(rows[1])>>, LAMBDA i : RI(rows[i[1] + 1][i[2] + 1]))

(***************************************************************************)
(* A Python attribute that may not have been set yet: <<>> while it is     *)
(* unset (reading it raises AttributeError), <<value>> once set.           *)
(***************************************************************************)
Undef == <<>>
Some(x) == <<x>>
IsSet(a) == a # <<>>
Get(a) == a[1]

(***************************************************************************)
(* Collaborators.  The kernel is GPy's linear kernel with one variance     *)
(* parameter: K(Xa, Xb) = variance * Xa Xb^T.                              *)
(***************************************************************************)
kern_K(kern, Xa, Xb) == Scale(RI(kern.variance), dot(Xa, T(Xb)))
kern_Kdiag(kern, X) == Scale(RI(kern.variance), SumAxis1(Square(X)))
\* folds dL_dK over the entries of K into the gradient of the variance
update_gradients_full(kern, dL_dK, X) ==
    [kern EXCEPT !.gradient = Some(Sum(Mul(dL_dK, dot(X, T(X)))))]

(***************************************************************************)
(* np.linalg.eigh: ascending eigenvalues S and orthonormal eigenvectors U  *)
(* (columns) with K = U diag(S) U^T.  The routine is deterministic; which  *)
(* sign or basis it returns is its own choice.  The search runs over the   *)
(* orthogonal matrices whose entries are multiples of 1/5.                 *)
(***************************************************************************)
UnitVecs(n) ==
    {u \in [1..n -> (-5)..5] : RSumSeq([k \in 1..n |-> RI(u[k] * u[k])]) = RI(25)}
RECURSIVE Frames(_, _)
Frames(n, k) ==
    IF k = 0 THEN {<<>>}
    ELSE {Append(f, u) : f \in Frames(n, k - 1), u \in UnitVecs(n)}
Perp(u, w) == RSumSeq([k \in 1..Len(u) |-> RI(u[k] * w[k])]) = RZero
Orthogonal(n) ==
    {Arr(<<n, n>>, LAMBDA i : Norm(f[i[2] + 1][i[1] + 1], 5)) :
        f \in {g \in Frames(n, n) :
                  \A a, b \in 1..n : a < b => Perp(g[a], g[b])}}
IsDiagonal(M) == \A i \in IdxSet(M.shape) : i[1] # i[2] => M.v[i] = RZero
Diagonal(M) == Arr(<<M.shape[1]>>, LAMBDA i : M.v[<<i[1], i[1]>>])
Ascending(S) == \A i \in 0..(S.shape[1] - 2) : RLe(S.v[<<i>>], S.v[<<i + 1>>])
\* the candidates for 1 x 1 and 2 x 2 matrices, computed once
OrthogonalOf == [n \in 1..2 |-> Orthogonal(n)]
DiagonalAscending(D) == IsDiagonal(D) /\ Ascending(Diagonal(D))
eigh(K) ==
    Let(CHOOSE V \in OrthogonalOf[K.shape[1]] : DiagonalAscending(dot(dot(T(V), K), V)),
        LAMBDA U : [S |-> Diagonal(dot(dot(T(U), K), U)), U |-> U])

\* functools.reduce(f, seq) : f(...f(f(seq[1], seq[2]), seq[3])..., seq[n])
RECURSIVE reduceFrom(_, _, _)
reduceFrom(f(_, _), acc, seq) ==
    IF seq = <<>> THEN acc ELSE reduceFrom(f, f(acc, seq[1]), Tail(seq))
reduce(f(_, _), seq) == reduceFrom(f, seq[1], Tail(seq))

(***************************************************************************)
(* Exceptions.  The assert statements raise AssertionError (the spec's     *)
(* ShapeError); reading an attribute that was never set raises             *)
(* AttributeError (the spec's StateError).                                 *)
(***************************************************************************)
NoError == "none"
AssertionError == "AssertionError"
IndexError == "IndexError"
AttributeError == "AttributeError"
LinAlgError == "LinAlgError"
KernelError == "KernelError"
ShapeError == AssertionError
StateError == AttributeError

Min(a, b) == IF a <= b THEN a ELSE b
\* range(hi, lo, -1) and range(lo, hi) as sequences
RangeDown(hi, lo) == [k \in 1..(IF hi > lo THEN hi - lo ELSE 0) |-> hi - k + 1]
RangeUp(lo, hi) == [k \in 1..(IF hi > lo THEN hi - lo ELSE 0) |-> lo + k - 1]
RECURSIVE Without(_, _)
Without(s, x) ==
    IF s = <<>> THEN <<>>
    ELSE IF s[1] = x THEN Without(Tail(s), x) ELSE <<s[1]>> \o Without(Tail(s), x)

(***************************************************************************)
(* GPKroneckerGaussianRegression.  The object is a record of its           *)
(* attributes; X, kern, num_data, input_dim and U hold the attribute       *)
(* families X%d, kern%d, ... (entry i + 1 is attribute number i, a missing *)
(* entry is an attribute that was never set).  A method is an operator     *)
(* from the object (and arguments) to the raised exception, the object     *)
(* afterwards and the value returned.                                      *)
(***************************************************************************)
NewObject ==
    [num_data |-> <<>>, input_dim |-> <<>>, X |-> <<>>, kern |-> <<>>,
     Y |-> Undef, likelihood |-> Undef, linked |-> <<>>,
     log_marginal_likelihood |-> Undef, Wi |-> Undef, Ytilde |-> Undef, U |-> <<>>]

\* `calls` lists the call's writes to collaborators and to the cache in
\* program order; `locals` holds the local variables of a pass that returned
Raise(e, self) ==
    [err |-> e, self |-> self, ret |-> Undef, calls |-> <<>>, locals |-> <<>>]
Return(self, v, calls) ==
    [err |-> NoError, self |-> self, ret |-> v, calls |-> calls, locals |-> <<>>]

\* self.link_parameter(p)
link_parameter(self, kind, i) ==
    [self EXCEPT !.linked = Append(@, [kind |-> kind, index |-> i])]

\* the loop of __init__ from axis i on (zip stops at the shorter list)
RECURSIVE accept(_, _, _, _, _)
accept(self, Xs, kerns, Y, i) ==
    IF i >= Min(Len(Xs), Len(kerns)) THEN Return(self, Undef, <<>>)
    ELSE LET X == Xs[i + 1]
             kern == kerns[i + 1]
         IN  IF ~(ndim(X) > 1) THEN Raise(AssertionError, self)
             ELSE IF i >= ndim(Y) THEN Raise(IndexError, self)
             ELSE IF ~(X.shape[1] = Y.shape[i + 1]) THEN Raise(AssertionError, self)
             ELSE IF ~(kern.input_dim = X.shape[2]) THEN Raise(AssertionError, self)
             ELSE accept(link_parameter(
                            [self EXCEPT !.num_data = Append(@, X.shape[1]),
                                         !.input_dim = Append(@, X.shape[2]),
                                         !.X = Append(@, X),
                                         !.kern = Append(@, kern)],
                            "kern", i),
                         Xs, kerns, Y, i + 1)

init(X1, X2, Y, kern1, kern2, noise_var, additional_Xs, additional_kerns) ==
    LET Xs == <<X1, X2>> \o additional_Xs
        kerns == <<kern1, kern2>> \o additional_kerns
    IN  IF ~(Len(Xs) = Len(kerns)) THEN Raise(AssertionError, NewObject)
        ELSE Let(accept(NewObject, Xs, kerns, Y, 0), LAMBDA r :
                 IF r.err # NoError THEN r
                 ELSE Return(link_parameter(
                                 [r.self EXCEPT
                                     !.Y = Some(Y),
                                     !.likelihood = Some([variance |-> noise_var,
                                                          gradient |-> Undef])],
                                 "likelihood", 0),
                             Undef, <<>>))

log_likelihood(self) ==
    IF ~IsSet(self.log_marginal_likelihood) THEN Raise(AttributeError, self)
    ELSE Return(self, Get(self.log_marginal_likelihood), <<>>)

(***************************************************************************)
(* parameters_changed: the inference pass.  `fault` names the collaborator *)
(* call that raises during this pass, if any: at = "eigh" (np.linalg.eigh  *)
(* of axis `axis`), at = "grad" (update_gradients_full of axis `axis`), or *)
(* at = "none".                                                            *)
(*                                                                         *)
(* The log marginal likelihood                                             *)
(*   -0.5*count*log(2 pi) - 0.5*sum(log(W)) - 0.5*quad                     *)
(* is kept as its three exact ingredients: count, det = the product of the *)
(* entries of W (sum(log(W)) = log(det)), and quad.                        *)
(***************************************************************************)
NoFault == [at |-> "none", axis |-> 0]

ProdAll(x) ==
    reduceFrom(RMul, ROne, Force([k \in 1..Prod(x.shape) |-> x.v[unravelF(k - 1, x.shape)]]))

\* lines 65-79: the eigendecompositions of the axes 0..dims-1
eigs(self, dims) ==
    Force([i \in 1..dims |-> eigh(kern_K(self.kern[i], self.X[i], self.X[i]))])

\* the eigenvalues combined in index order instead of reverse order
combined_W_forward(Ss, variance) == AddScalar(reduce(kron, Ss), RI(variance))

\* line 85-87
combined_W(Ss, variance) == AddScalar(reduce(kron, Reverse(Ss)), RI(variance))

\* the contraction with U in place of its transpose
rotate_untransposed(Y, Us) ==
    reduce(LAMBDA x, y : tensordot(x, y, <<0>>, <<1>>), <<Y>> \o Us)

\* line 90-93
rotate(Y, Us) ==
    reduce(LAMBDA x, y : tensordot(x, T(y), <<0>>, <<1>>), <<Y>> \o Us)

\* lines 98-100
log_marginal(num_data_prod, W, Y_, Ytilde) ==
    [count |-> num_data_prod, det |-> ProdAll(W), quad |-> vdot(flattenF(Y_), Ytilde)]

\* lines 107-121 for axis i (0-based)
dL_dK(i, dims, Ss, Us, Yt_reshaped, Wi_reshaped) ==
    Let2(tensordot(T(Us[i + 1]), Yt_reshaped, <<0>>, <<i>>),
         reduce(outer, Pick(Ss, Others(dims, {i + 1}))),
         LAMBDA tmp, S :
             LET U == Us[i + 1]
                 tmps == Mul(tmp, S)
                 fit == Scale(<<1, 2>>,
                              tensordot(tmps, T(tmp),
                                        RangeDown(dims - 1, 0), RangeUp(0, dims - 1)))
                 tmp2 == tensordot(Wi_reshaped, T(S),
                                   Without(RangeDown(dims - 1, -1), i), RangeUp(0, dims - 1))
             IN  Add(fit, Scale(<<-1, 2>>, dot(Mul(U, tmp2), T(U)))))

\* the gradient loop handing over the input sets in reverse axis order
RECURSIVE gradient_loop_reversed_X(_, _, _, _, _, _)
gradient_loop_reversed_X(self, calls, i, dims, m, fault) ==
    IF i >= dims THEN Return(self, Undef, calls)
    ELSE IF fault.at = "grad" /\ fault.axis = i THEN
        [Raise(KernelError, self) EXCEPT !.calls = calls]
    ELSE Let(dL_dK(i, dims, m.Ss, m.Us, m.Yt_reshaped, m.Wi_reshaped), LAMBDA g :
             gradient_loop_reversed_X(
                 [self EXCEPT !.kern[i + 1] = update_gradients_full(@, g, self.X[dims - i])],
                 Append(calls, [op |-> "update_gradients_full", kern |-> i,
                                dL_dK |-> g, X |-> self.X[dims - i]]),
                 i + 1, dims, m, fault))

\* lines 106-123: the gradient loop from axis i on
RECURSIVE gradient_loop(_, _, _, _, _, _)
gradient_loop(self, calls, i, dims, m, fault) ==
    IF i >= dims THEN Return(self, Undef, calls)
    ELSE IF fault.at = "grad" /\ fault.axis = i THEN
        [Raise(KernelError, self) EXCEPT !.calls = calls]
    ELSE Let(dL_dK(i, dims, m.Ss, m.Us, m.Yt_reshaped, m.Wi_reshaped), LAMBDA g :
             gradient_loop(
                 [self EXCEPT !.kern[i + 1] = update_gradients_full(@, g, self.X[i + 1])],
                 Append(calls, [op |-> "update_gradients_full", kern |-> i,
                                dL_dK |-> g, X |-> self.X[i + 1]]),
                 i + 1, dims, m, fault))

\* lines 65-104: the local variables of the pass before it writes gradients
moments(self) ==
    Let(eigs(self, ndim(Get(self.Y))), LAMBDA e :
    Let2(Force([i \in 1..Len(e) |-> e[i].S]), Force([i \in 1..Len(e) |-> e[i].U]),
         LAMBDA Ss, Us :
    Let2(combined_W(Ss, Get(self.likelihood).variance), rotate(Get(self.Y), Us),
         LAMBDA W, Y_ :
    Let(Recip(W), LAMBDA Wi :
    Let(Mul(flattenF(Y_), Wi), LAMBDA Ytilde :
        [Ss |-> Ss, Us |-> Us, W |-> W, Y_ |-> Y_, Wi |-> Wi, Ytilde |-> Ytilde,
         log_marginal_likelihood |->
             log_marginal(Prod(Force([i \in 1..ndim(Get(self.Y)) |-> self.num_data[i]])),
                          W, Y_, Ytilde),
         Yt_reshaped |-> reshapeF(Ytilde, Get(self.Y).shape),
         Wi_reshaped |-> reshapeF(Wi, Get(self.Y).shape)])))))

\* the noise gradient added to the slot's previous content
noise_gradient_accumulating(likelihood, Wi, Ytilde) ==
    Let(RAdd(RMul(<<-1, 2>>, Sum(Wi)), RMul(<<1, 2>>, Sum(Square(Ytilde)))), LAMBDA g :
        [likelihood EXCEPT !.gradient =
            Some(IF IsSet(likelihood.gradient) THEN RAdd(Get(likelihood.gradient), g) ELSE g)])

\* lines 126-127
noise_gradient(likelihood, Wi, Ytilde) ==
    [likelihood EXCEPT !.gradient =
        Some(RAdd(RMul(<<-1, 2>>, Sum(Wi)), RMul(<<1, 2>>, Sum(Square(Ytilde)))))]

\* the cache stored without the eigenvectors
store_without_U(self, m) == [self EXCEPT !.Wi = Some(m.Wi), !.Ytilde = Some(m.Ytilde)]

\* lines 130-133
store(self, m) == [self EXCEPT !.Wi = Some(m.Wi), !.Ytilde = Some(m.Ytilde), !.U = m.Us]

\* lines 125-133, after the gradient loop returned r
finish(r, m) ==
    IF r.err # NoError THEN r
    ELSE Let(noise_gradient(Get(r.self.likelihood), m.Wi, m.Ytilde), LAMBDA lik :
             [Return(store([r.self EXCEPT !.likelihood = Some(lik)], m), Undef,
                     r.calls \o <<[op |-> "variance.gradient", value |-> Get(lik.gradient)],
                                  [op |-> "store"]>>)
              EXCEPT !.locals = m])

\* the pass, given the local variables m it computes from the current parameters
pass(self, m, fault) ==
    \* lines 67-72: getattr of X%d / kern%d, then eigh, axis by axis
    IF fault.at = "eigh" /\ fault.axis < Min(ndim(Get(self.Y)), Min(Len(self.X), Len(self.kern)))
    THEN Raise(LinAlgError, self)
    ELSE IF ndim(Get(self.Y)) > Min(Len(self.X), Len(self.kern))
    THEN Raise(AttributeError, self)
    \* line 98, then lines 106-123
    ELSE finish(gradient_loop(
                    [self EXCEPT !.log_marginal_likelihood = Some(m.log_marginal_likelihood)],
                    <<>>, 0, ndim(Get(self.Y)), m, fault),
                m)

parameters_changed(self, fault) == pass(self, moments(self), fault)

(***************************************************************************)
(* predict.  Returns <<mean, variance>>; the variance is NoneValue with    *)
(* mean_only.  It assigns no attribute: the object afterwards is the       *)
(* object before.                                                          *)
(***************************************************************************)
NoneValue == [shape |-> <<>>, v |-> <<>>]

\* predict that keeps the reshaped Ytilde on the object
predict_keeping_reshaped(self, X1new, X2new, mean_only, additional_Xnews) ==
    Let(<<X1new, X2new>> \o additional_Xnews, LAMBDA Xnews :
    IF ~(Len(Xnews) = ndim(Get(self.Y))) THEN Raise(AssertionError, self)
    \* lines 155-163: getattr of kern%d, X%d and U%d of axis 0, 1, ...
    ELSE IF \E i \in 1..ndim(Get(self.Y)) :
                i > Len(self.kern) \/ i > Len(self.X) \/ i > Len(self.U)
    THEN Raise(AttributeError, self)
    ELSE
    Let2(Force([i \in 1..Len(Xnews) |->
             dot(kern_K(self.kern[i], Xnews[i], self.X[i]), self.U[i])]),
         reshapeF(Get(self.Ytilde), Get(self.Y).shape),
         LAMBDA embeds, Yt :
    Let(flattenF(reduce(LAMBDA x, y : tensordot(x, y, <<0>>, <<1>>), <<Yt>> \o embeds)),
        LAMBDA mu :
        IF mean_only THEN Return([self EXCEPT !.Ytilde = Some(Yt)], <<Column(mu), NoneValue>>, <<>>)
        ELSE
        LET kxxs == Force([i \in 1..Len(Xnews) |-> kern_Kdiag(self.kern[i], Xnews[i])])
            kron_embeds == reduce(kron, Reverse(embeds))
            var == AddScalar(
                       Sub(reduce(kron, Reverse(kxxs)),
                           SumAxis1(Mul(Square(kron_embeds), Get(self.Wi)))),
                       RI(Get(self.likelihood).variance))
        IN  Return([self EXCEPT !.Ytilde = Some(Yt)], <<Column(mu), Column(var)>>, <<>>))))

\* predict that combines the embeddings in index order
predict_kron_forward(self, X1new, X2new, mean_only, additional_Xnews) ==
    Let(<<X1new, X2new>> \o additional_Xnews, LAMBDA Xnews :
    IF ~(Len(Xnews) = ndim(Get(self.Y))) THEN Raise(AssertionError, self)
    \* lines 155-163: getattr of kern%d, X%d and U%d of axis 0, 1, ...
    ELSE IF \E i \in 1..ndim(Get(self.Y)) :
                i > Len(self.kern) \/ i > Len(self.X) \/ i > Len(self.U)
    THEN Raise(AttributeError, self)
    ELSE
    Let2(Force([i \in 1..Len(Xnews) |->
             dot(kern_K(self.kern[i], Xnews[i], self.X[i]), self.U[i])]),
         reshapeF(Get(self.Ytilde), Get(self.Y).shape),
         LAMBDA embeds, Yt :
    Let(flattenF(reduce(LAMBDA x, y : tensordot(x, y, <<0>>, <<1>>), <<Yt>> \o embeds)),
        LAMBDA mu :
        IF mean_only THEN Return(self, <<Column(mu), NoneValue>>, <<>>)
        ELSE
        LET kxxs == Force([i \in 1..Len(Xnews) |-> kern_Kdiag(self.kern[i], Xnews[i])])
            kron_embeds == reduce(kron, embeds)
            var == AddScalar(
                       Sub(reduce(kron, Reverse(kxxs)),
                           SumAxis1(Mul(Square(kron_embeds), Get(self.Wi)))),
                       RI(Get(self.likelihood).variance))
        IN  Return(self, <<Column(mu), Column(var)>>, <<>>))))

predict(self, X1new, X2new, mean_only, additional_Xnews) ==
    Let(<<X1new, X2new>> \o additional_Xnews, LAMBDA Xnews :
    IF ~(Len(Xnews) = ndim(Get(self.Y))) THEN Raise(AssertionError, self)
    \* lines 155-163: getattr of kern%d, X%d and U%d of axis 0, 1, ...
    ELSE IF \E i \in 1..ndim(Get(self.Y)) :
                i > Len(self.kern) \/ i > Len(self.X) \/ i > Len(self.U)
    THEN Raise(AttributeError, self)
    ELSE
    Let2(Force([i \in 1..Len(Xnews) |->
             dot(kern_K(self.kern[i], Xnews[i], self.X[i]), self.U[i])]),
         reshapeF(Get(self.Ytilde), Get(self.Y).shape),
         LAMBDA embeds, Yt :
    Let(flattenF(reduce(LAMBDA x, y : tensordot(x, y, <<0>>, <<1>>), <<Yt>> \o embeds)),
        LAMBDA mu :
        IF mean_only THEN Return(self, <<Column(mu), NoneValue>>, <<>>)
        ELSE
        LET kxxs == Force([i \in 1..Len(Xnews) |-> kern_Kdiag(self.kern[i], Xnews[i])])
            kron_embeds == reduce(kron, Reverse(embeds))
            var == AddScalar(
                       Sub(reduce(kron, Reverse(kxxs)),
                           SumAxis1(Mul(Square(kron_embeds), Get(self.Wi)))),
                       RI(Get(self.likelihood).variance))
        IN  Return(self, <<Column(mu), Column(var)>>, <<>>))))

(***************************************************************************)
(* The caller's side: what is passed in, and the bounds of the model.      *)
(***************************************************************************)
\* __init__'s default for noise_var
noise_var_default == 1

\* the largest noise variance the optimizer tries, and the number of events
\* (a parameter moved by the optimizer, a collaborator raising) in one run
MaxNoise == 2
MaxEvents == 1

\* values the optimizer gives a kernel's variance
Variances == {1, 2}
NoiseValues == 1..MaxNoise

\* input sets: two points on a line, two points in the plane, one point,
\* and an array with a single dimension
P34 == Arr(<<2, 1>>, LAMBDA i : IF i[1] = 0 THEN <<3, 5>> ELSE <<4, 5>>)
D21 == Mat(<<<<2, 0>>, <<0, 1>>>>)
P1 == Mat(<<<<1>>>>)
V2 == Vec(<<1, 2>>)
FirstSets == {P34, P1, V2}
SecondSets == {D21, P1, V2}
AdditionalSets == {D21, P1}

\* one data tensor per shape, all entries different
DataShapes == {<<2>>, <<2, 2>>, <<1, 2>>, <<2, 1, 2>>}
Data(shape) == Arr(shape, LAMBDA i : RI(1 + ravelF(i, shape)))

Kernel(d) == [input_dim |-> d, variance |-> 1, gradient |-> Undef]
Kernels == {Kernel(1), Kernel(2)}

\* m new points with d features
NewPoints(m, d) == Arr(<<m, d>>, LAMBDA i : RI(1 + i[1] + i[2]))
\* the new point sets offered for axis i (1-based) of the object
NewSets(self, i) ==
    LET d == IF i <= Len(self.input_dim) THEN self.input_dim[i] ELSE 1
    IN  IF i = 2 THEN {NewPoints(1, d), NewPoints(2, d)} ELSE {NewPoints(2, d)}

Faults(dims) ==
    {NoFault} \cup {[at |-> a, axis |-> i] : a \in {"eigh", "grad"}, i \in 0..(dims - 1)}

VARIABLES phase, args, self, last, events
vars == <<phase, args, self, last, events>>

NoArgs == [X |-> <<>>, kern |-> <<>>, Y |-> NoneValue, noise_var |-> 0]
\* what the caller (and, for a pass, an observer of its local variables) sees of
\* the last call
Outcome(op, a, r) ==
    [op |-> op, args |-> a, err |-> r.err, ret |-> r.ret, calls |-> r.calls,
     locals |-> r.locals]
Idle == Outcome("none", <<>>, Return(NewObject, Undef, <<>>))

Init ==
    /\ phase = "new"
    /\ args = NoArgs
    /\ self = NewObject
    /\ last = Idle
    /\ events = 0

\* GPKroneckerGaussianRegression(X1, X2, Y, kern1, kern2, noise_var, ...)
Construct ==
    /\ phase = "new"
    /\ last = Idle
    /\ \E X1 \in FirstSets, X2 \in SecondSets, shape \in DataShapes,
          kern1 \in Kernels, kern2 \in Kernels, noise_var \in {noise_var_default},
          aX \in {<<>>} \cup {<<X>> : X \in AdditionalSets},
          ak \in {<<>>} \cup {<<k>> : k \in Kernels} :
          \E r \in {init(X1, X2, Data(shape), kern1, kern2, noise_var, aX, ak)} :
              /\ args' = [X |-> <<X1, X2>> \o aX, kern |-> <<kern1, kern2>> \o ak,
                          Y |-> Data(shape), noise_var |-> noise_var]
              /\ phase' = IF r.err = NoError THEN "built" ELSE "failed"
              /\ self' = IF r.err = NoError THEN r.self ELSE NewObject
              /\ last' = Outcome("init", <<>>, r)
    /\ UNCHANGED events

\* the optimizer moves a kernel's variance
SetKernelVariance ==
    /\ phase = "built"
    /\ last = Idle
    /\ events < MaxEvents
    /\ \E i \in 1..Len(self.kern), v \in Variances :
          /\ v # self.kern[i].variance
          /\ self' = [self EXCEPT !.kern[i].variance = v]
    /\ events' = events + 1
    /\ UNCHANGED <<phase, args, last>>

\* the optimizer moves the noise variance
SetNoiseVariance ==
    /\ phase = "built"
    /\ last = Idle
    /\ events < MaxEvents
    /\ \E v \in NoiseValues :
          /\ v # Get(self.likelihood).variance
          /\ self' = [self EXCEPT !.likelihood = Some([Get(@) EXCEPT !.variance = v])]
    /\ events' = events + 1
    /\ UNCHANGED <<phase, args, last>>

\* the framework calls parameters_changed(); a collaborator may raise in it
InferencePass ==
    /\ phase = "built"
    /\ last = Idle
    /\ \E fault \in Faults(ndim(Get(self.Y))) :
          /\ fault # NoFault => events < MaxEvents
          /\ events' = IF fault = NoFault THEN events ELSE events + 1
          /\ \E r \in {parameters_changed(self, fault)} :
                /\ self' = r.self
                /\ last' = Outcome("parameters_changed", <<>>, r)
    /\ UNCHANGED <<phase, args>>

\* predict(X1new, X2new, mean_only, additional_Xnews)
Predict ==
    /\ phase = "built"
    /\ last = Idle
    /\ \E X1new \in NewSets(self, 1), X2new \in NewSets(self, 2), mean_only \in BOOLEAN,
          aX \in {<<>>} \cup {<<X>> : X \in NewSets(self, 3)} :
          \E r \in {predict(self, X1new, X2new, mean_only, aX)} :
              /\ self' = r.self
              /\ last' = Outcome("predict",
                                 [Xnews |-> <<X1new, X2new>> \o aX, mean_only |-> mean_only], r)
    /\ UNCHANGED <<phase, args, events>>

\* log_likelihood()
LogLikelihood ==
    /\ phase = "built"
    /\ last = Idle
    /\ \E r \in {log_likelihood(self)} :
          /\ self' = r.self
          /\ last' = Outcome("log_likelihood", <<>>, r)
    /\ UNCHANGED <<phase, args, events>>

\* the caller takes the outcome of the call and goes on
Resume ==
    /\ last # Idle
    /\ phase # "failed"
    /\ last' = Idle
    /\ UNCHANGED <<phase, args, self, events>>

Next ==
    \/ Construct
    \/ SetKernelVariance
    \/ SetNoiseVariance
    \/ InferencePass
    \/ Predict
    \/ LogLikelihood
    \/ Resume

Spec == Init /\ [][Next]_vars

(***************************************************************************)
(* What the properties below speak of.                                     *)
(***************************************************************************)
\* the last call was an inference pass that ran to its end
Completed == last.op = "parameters_changed" /\ last.err = NoError

\* the shape of the data, the number of axes of the data
DataShape == Get(self.Y).shape
N == ndim(Get(self.Y))

RProd(s) == reduceFrom(RMul, ROne, s)

\* i_0 + n_0*i_1 + n_0*n_1*i_2 + ... for the multi-index idx (1-based sequence
\* of 0-based indices) and the sizes n
RECURSIVE PositionFrom(_, _, _)
PositionFrom(idx, n, j) ==
    IF j > Len(idx) THEN 0
    ELSE idx[j] * Prod(SubSeq(n, 1, j - 1)) + PositionFrom(idx, n, j + 1)
Position(idx, n) == PositionFrom(idx, n, 1)

\* the index on axis j (1-based) of flat position k
Digit(k, j, n) == (k \div Prod(SubSeq(n, 1, j - 1))) % n[j]

\* the entry at multi-index idx of Y rotated by U_0^T .. U_{N-1}^T
Rotated(Y, Us, idx) ==
    RSum(IdxSet(Y.shape),
         LAMBDA a : RMul(RProd(Force([j \in 1..Len(Us) |-> Us[j].v[<<a[j], idx[j]>>]])),
                         Y.v[a]))

(***************************************************************************)
(* C1: after a completed inference pass W, Wi, Y_flat and Ytilde use one   *)
(* flattening with axis 0 fastest: at position k = i_0 + n_0*i_1 + ... of   *)
(* the multi-index (i_0, .., i_{N-1}), W[k] is the product of the S_j[i_j]  *)
(* plus the noise variance, Wi[k] = 1/W[k], Y_flat[k] is the entry at that *)
(* multi-index of the data rotated by the U_j^T, Ytilde[k] = Y_flat[k] *   *)
(* Wi[k], and the reshaped Ytilde and Wi hold position k at that           *)
(* multi-index again.                                                      *)
(***************************************************************************)
C1_OneFlattening ==
    Completed =>
        LET m == last.locals
            n == DataShape
            noise == RI(Get(self.likelihood).variance)
            Y_flat == flattenF(m.Y_)
        IN  /\ m.W.shape = <<Prod(n)>>
            /\ m.Wi.shape = <<Prod(n)>>
            /\ m.Ytilde.shape = <<Prod(n)>>
            /\ m.Y_.shape = n
            /\ m.Yt_reshaped.shape = n
            /\ m.Wi_reshaped.shape = n
            /\ \A idx \in IdxSet(n) :
                  LET k == <<Position(idx, n)>>
                  IN  /\ m.W.v[k] =
                            RAdd(RProd(Force([j \in 1..N |-> m.Ss[j].v[<<idx[j]>>]])), noise)
                      /\ m.Wi.v[k] = RInv(m.W.v[k])
                      /\ m.Y_.v[idx] = Rotated(Get(self.Y), m.Us, idx)
                      /\ Y_flat.v[k] = m.Y_.v[idx]
                      /\ m.Ytilde.v[k] = RMul(Y_flat.v[k], m.Wi.v[k])
                      /\ m.Yt_reshaped.v[idx] = m.Ytilde.v[k]
                      /\ m.Wi_reshaped.v[idx] = m.Wi.v[k]
            /\ self.Wi = Some(m.Wi)
            /\ self.Ytilde = Some(m.Ytilde)

\* a pass over three axes has completed after the optimizer moved the noise
C1_Witness ==
    /\ Completed
    /\ N = 3
    /\ Get(self.likelihood).variance = 2
    /\ Cardinality({last.locals.W.v[k] : k \in IdxSet(<<Prod(DataShape)>>)}) > 2

(***************************************************************************)
(* The log-density of the flattened data under the dense covariance        *)
(* kron(K_{N-1}, .., K_0) + noise * I, by elimination: for A = [p a^T; a B]*)
(* det A = p * det(B - a a^T / p) and                                      *)
(* y^T A^-1 y = y_0^2 / p + z^T (B - a a^T / p)^-1 z with z = y' - a y_0/p.*)
(***************************************************************************)
DenseCovariance(Ks, noise, n) ==
    Force([k \in 0..(Prod(n) - 1) |-> [l \in 0..(Prod(n) - 1) |->
        RAdd(RProd(Force([j \in 1..Len(n) |->
                 Ks[j].v[<<Digit(k, j, n), Digit(l, j, n)>>]])),
             IF k = l THEN noise ELSE RZero)]])

RECURSIVE DetQuad(_, _, _)
DetQuad(A, y, size) ==
    IF size = 0 THEN [det |-> ROne, quad |-> RZero]
    ELSE LET p == A[0][0]
             B == Force([i \in 0..(size - 2) |-> [j \in 0..(size - 2) |->
                     RSub(A[i + 1][j + 1], RDiv(RMul(A[i + 1][0], A[0][j + 1]), p))]])
             z == Force([i \in 0..(size - 2) |->
                     RSub(y[i + 1], RDiv(RMul(A[i + 1][0], y[0]), p))])
             r == DetQuad(B, z, size - 1)
         IN  [det |-> RMul(p, r.det),
              quad |-> RAdd(RDiv(RMul(y[0], y[0]), p), r.quad)]

DenseLogDensity(obj) ==
    LET Y == Get(obj.Y)
        n == Y.shape
        Ks == Force([j \in 1..Len(n) |-> kern_K(obj.kern[j], obj.X[j], obj.X[j])])
        A == DenseCovariance(Ks, RI(Get(obj.likelihood).variance), n)
        y == Force([k \in 0..(Prod(n) - 1) |->
                 Y.v[[j \in 1..Len(n) |-> Digit(k, j, n)]]])
        r == DetQuad(A, y, Prod(n))
    IN  [count |-> Prod(n), det |-> r.det, quad |-> r.quad]

(***************************************************************************)
(* C2: after an inference pass log_likelihood() returns the log-density of *)
(* the flattened data (axis 0 fastest) under the dense covariance          *)
(* kron(K_{N-1}, .., K_0) + noise_variance * I.                            *)
(***************************************************************************)
C2_DenseLogDensity ==
    Completed =>
        LET r == log_likelihood(self)
        IN  /\ r.err = NoError
            /\ r.ret = DenseLogDensity(self)

\* a pass over a 2 x 2 grid has completed after the optimizer moved a kernel
C2_Witness ==
    /\ Completed
    /\ DataShape = <<2, 2>>
    /\ \E i \in 1..N : self.kern[i].variance = 2
    /\ Get(self.log_marginal_likelihood).quad # RZero

(***************************************************************************)
(* Construction.                                                           *)
(***************************************************************************)
Constructed == last.op = "init"

\* what the claims say of axis i (1-based) of a construction's arguments
FewerThanTwoDims(i) == ndim(args.X[i]) < 2
FirstDimDiffers(i) ==
    \/ i > ndim(args.Y)
    \/ args.X[i].shape[1] # args.Y.shape[i]
FeatureCountDiffers(i) == args.kern[i].input_dim # args.X[i].shape[2]
AxisViolates(i) ==
    \/ FewerThanTwoDims(i)
    \/ FirstDimDiffers(i)
    \/ FeatureCountDiffers(i)

\* every kernel and the noise model is a sub-parameter of the object
AllRegistered ==
    /\ Len(self.kern) = Len(args.kern)
    /\ \A i \in 1..Len(args.kern) :
          /\ self.kern[i] = args.kern[i]
          /\ self.X[i] = args.X[i]
          /\ \E k \in 1..Len(self.linked) : self.linked[k] = [kind |-> "kern", index |-> i - 1]
    /\ IsSet(self.likelihood)
    /\ Get(self.likelihood).variance = args.noise_var
    /\ \E k \in 1..Len(self.linked) : self.linked[k] = [kind |-> "likelihood", index |-> 0]

(***************************************************************************)
(* C3: construction fails with ShapeError, before any inference pass runs, *)
(* whenever on some axis the input set has fewer than two dimensions, or   *)
(* its first dimension differs from the data's dimension of that axis, or  *)
(* the kernel's input dimensionality differs from the input set's feature  *)
(* count; when no axis violates these conditions construction succeeds and *)
(* every kernel and the noise model is registered as a sub-parameter.      *)
(***************************************************************************)
C3_ShapeErrorOnAnyAxis ==
    (Constructed /\ Len(args.X) = Len(args.kern)) =>
        IF \E i \in 1..Len(args.X) : AxisViolates(i)
        THEN /\ last.err = ShapeError
             /\ ~IsSet(self.log_marginal_likelihood)
        ELSE /\ last.err = NoError
             /\ AllRegistered

(***************************************************************************)
(* C10: every construction that succeeds yields an object whose number of  *)
(* (input set, kernel) axes equals the number of dimensions of the data,   *)
(* so that the pass and predict find a stored input set and kernel for     *)
(* every dimension; data with more or fewer dimensions than the supplied   *)
(* axes is rejected at construction with ShapeError.                       *)
(***************************************************************************)
C10_AxesMatchDataRank ==
    (Constructed /\ Len(args.X) = Len(args.kern)) =>
        /\ last.err = NoError =>
              /\ Len(self.X) = N
              /\ Len(self.kern) = N
        /\ Len(args.X) # ndim(args.Y) => last.err = ShapeError

(***************************************************************************)
(* predict.                                                                *)
(***************************************************************************)
Predicted == last.op = "predict"
\* some inference pass has run to its end: storing the cache is its last step
PassCompleted == IsSet(self.Wi)
CountMatches == Len(last.args.Xnews) = N

(***************************************************************************)
(* C4: predict on an object for which no inference pass has completed      *)
(* fails with StateError and returns no mean or variance; predict after a  *)
(* completed pass with a matching number of new point sets never fails     *)
(* with StateError.  Stated of the objects that hold an input set and a    *)
(* kernel for every dimension of the data.                                 *)
(***************************************************************************)
C4_StateErrorBeforeAnyPass ==
    (Predicted /\ Len(self.X) = N) =>
        /\ ~PassCompleted => (last.err = StateError /\ last.ret = Undef)
        /\ (PassCompleted /\ CountMatches) => last.err # StateError

(***************************************************************************)
(* C4 as amended: before any completed pass predict with a matching number *)
(* of new point sets fails with StateError, with another number it fails   *)
(* with ShapeError, and in both cases returns nothing; after a completed   *)
(* pass with a matching number it never fails with StateError.             *)
(***************************************************************************)
C4_StateErrorWhenCountMatches ==
    Predicted =>
        /\ (~PassCompleted /\ CountMatches) => (last.err = StateError /\ last.ret = Undef)
        /\ (~PassCompleted /\ ~CountMatches) => (last.err = ShapeError /\ last.ret = Undef)
        /\ (PassCompleted /\ CountMatches) => last.err # StateError

\* predict fails with StateError after a pass that stopped partway
C4_Witness ==
    /\ Predicted
    /\ last.err = StateError
    /\ IsSet(self.log_marginal_likelihood)
    /\ ~PassCompleted

(***************************************************************************)
(* C6: predict is read-only: a predict call, with or without mean_only,    *)
(* succeeding or failing, leaves the cache, the log marginal likelihood,   *)
(* the gradients, the hyperparameters, the noise variance, the input sets  *)
(* and the data unchanged and triggers no inference pass, so               *)
(* log_likelihood() returns the same before and after.                     *)
(***************************************************************************)
C6_PredictReadOnly ==
    [][(last'.op = "predict" /\ last = Idle) =>
          /\ self' = self
          /\ last'.calls = <<>>
          /\ log_likelihood(self') = log_likelihood(self)]_vars

\* predict has returned a mean and a variance from a cache that is older than
\* the current parameters
C6_Witness ==
    /\ Predicted
    /\ last.err = NoError
    /\ ~last.args.mean_only
    /\ events = 1
    /\ Get(self.log_marginal_likelihood) # DenseLogDensity(self)

(***************************************************************************)
(* C7: for new point sets of sizes m_0..m_{N-1} predict returns a mean of  *)
(* prod(m_i) rows and one column whose row j_0 + m_0*j_1 + ... is the      *)
(* prediction for the combination (j_0, .., j_{N-1}); with mean_only the   *)
(* variance is None, otherwise it has the same shape and its row at that   *)
(* position combines the kxx_i[j_i], the embeddings E_i[j_i, :] of that    *)
(* same combination and the cached Wi in the same flattening.              *)
(***************************************************************************)
C7_PredictShapeAndOrder ==
    (Predicted /\ last.err = NoError) =>
        LET Xnews == last.args.Xnews
            sizes == Force([i \in 1..N |-> Xnews[i].shape[1]])
            n == DataShape
            E == Force([i \in 1..N |->
                     dot(kern_K(self.kern[i], Xnews[i], self.X[i]), self.U[i])])
            kxx == Force([i \in 1..N |-> kern_Kdiag(self.kern[i], Xnews[i])])
            weight(j, a) == RProd(Force([i \in 1..N |-> E[i].v[<<j[i], a[i]>>]]))
            noise == RI(Get(self.likelihood).variance)
            mean == last.ret[1]
            var == last.ret[2]
        IN  /\ mean.shape = <<Prod(sizes), 1>>
            /\ \A j \in IdxSet(sizes) :
                  mean.v[<<Position(j, sizes), 0>>] =
                      RSum(IdxSet(n), LAMBDA a :
                          RMul(weight(j, a), Get(self.Ytilde).v[<<Position(a, n)>>]))
            /\ IF last.args.mean_only THEN var = NoneValue
               ELSE /\ var.shape = <<Prod(sizes), 1>>
                    /\ \A j \in IdxSet(sizes) :
                          var.v[<<Position(j, sizes), 0>>] =
                              RAdd(RSub(RProd(Force([i \in 1..N |-> kxx[i].v[<<j[i]>>]])),
                                        RSum(IdxSet(n), LAMBDA a :
                                            RMul(RMul(weight(j, a), weight(j, a)),
                                                 Get(self.Wi).v[<<Position(a, n)>>]))),
                                   noise)

\* predict has returned mean and variance for 2 x 1 new points
C7_Witness ==
    /\ Predicted
    /\ last.err = NoError
    /\ ~last.args.mean_only
    /\ last.ret[1].shape = <<2, 1>>
    /\ last.args.Xnews[1].shape[1] = 2
    /\ last.ret[1].v[<<0, 0>>] # last.ret[1].v[<<1, 0>>]
    /\ last.ret[2].v[<<0, 0>>] # last.ret[2].v[<<1, 0>>]

C8_GradientHandOver ==
    Completed =>
        LET c == last.calls
        IN  /\ Len(c) = N + 2
            /\ \A i \in 1..N :
                  /\ c[i].op = "update_gradients_full"
                  /\ c[i].kern = i - 1
                  /\ c[i].dL_dK.shape = <<DataShape[i], DataShape[i]>>
                  /\ c[i].X = self.X[i]
            /\ c[N + 1].op = "variance.gradient"
            /\ Len(c[N + 1].value) = 2
            /\ c[N + 1].value = Get(Get(self.likelihood).gradient)
            /\ c[N + 2].op = "store"

\* a pass over three axes with different input sets has completed
C8_Witness ==
    /\ Completed
    /\ N = 3
    /\ self.X[1] # self.X[3]
    /\ Len(last.calls) = 5

(***************************************************************************)
(* C9: in every reachable state, also after a pass that stopped partway    *)
(* with a propagated error, the stored log marginal likelihood, Wi, Ytilde *)
(* and all U_i come from one and the same pass: they are all absent or all *)
(* present, and the log marginal likelihood is the one of the stored Wi    *)
(* and Ytilde (its determinant term is 1 / prod(Wi), its quadratic term    *)
(* sum(Ytilde^2 / Wi)).                                                    *)
(***************************************************************************)
C9_CacheFromOnePass ==
    phase = "built" =>
        /\ IsSet(self.log_marginal_likelihood) <=> IsSet(self.Wi)
        /\ IsSet(self.Wi) <=> IsSet(self.Ytilde)
        /\ IsSet(self.Wi) <=> Len(self.U) = N
        /\ IsSet(self.Wi) => Len(self.U) = Len(self.X)
        /\ (IsSet(self.log_marginal_likelihood) /\ IsSet(self.Wi) /\ IsSet(self.Ytilde)) =>
              LET ll == Get(self.log_marginal_likelihood)
                  Wi == Get(self.Wi)
                  Ytilde == Get(self.Ytilde)
              IN  /\ RMul(ll.det, ProdAll(Wi)) = ROne
                  /\ ll.quad = Sum(Mul(Square(Ytilde), Recip(Wi)))

====
